---- MODULE Spec2Model ----
(***************************************************************************)
(* Model of timewarrior-report (src/src/lib.rs): reading a Timewarrior     *)
(* report from standard input or from a string, splitting it into the      *)
(* configuration header and the JSON session body, decoding the sessions   *)
(* (serde_json + the custom chrono timestamp format), and the equality and *)
(* ordering of sessions.                                                   *)
(*                                                                         *)
(* A character is its Unicode scalar value and a text is a sequence of     *)
(* characters, so that splitting, trimming and parsing are computed        *)
(* character by character over the whole of Unicode.                       *)
(***************************************************************************)
EXTENDS Integers, Sequences, FiniteSets, TLC

Min(S) == CHOOSE x \in S : \A y \in S : x <= y

\* F of the value v, with v computed once.
Bind(v, F(_)) == CHOOSE y \in {F(x) : x \in {v}} : TRUE

\* The printable ASCII characters in the order of their values, from 32 to
\* 95 and from 97 to 126.
Ascii32 == " !\"#$%&'()*+,-./0123456789:;<=>?@ABCDEFGHIJKLMNOPQRSTUVWXYZ[\\]^_"
Ascii97 == "abcdefghijklmnopqrstuvwxyz{|}~"

\* The character written as the one-character string c.
Ch(c) ==
    IF c = "\t" THEN 9
    ELSE IF c = "\n" THEN 10
    ELSE IF c = "\f" THEN 12
    ELSE IF c = "\r" THEN 13
    ELSE IF \E i \in 1..Len(Ascii32) : SubSeq(Ascii32, i, i) = c
    THEN 31 + (CHOOSE i \in 1..Len(Ascii32) : SubSeq(Ascii32, i, i) = c)
    ELSE 96 + (CHOOSE i \in 1..Len(Ascii97) : SubSeq(Ascii97, i, i) = c)

\* The text written as the string literal lit.
Str(lit) == [i \in 1..Len(lit) |-> Ch(SubSeq(lit, i, i))]

NL == Ch("\n")
CR == Ch("\r")
TAB == Ch("\t")
QT == Ch("\"")
BSL == Ch("\\")
SP == Ch(" ")

\* Marks a read past the end of a text (no character has this value).
EOF == 0 - 1

At(s, p) == IF p >= 1 /\ p <= Len(s) THEN s[p] ELSE EOF

\* The first position from p on whose character is not in chars (the end of
\* the text, Len(s) + 1, when every character is).
first_not_in(s, p, chars) ==
    IF p > Len(s) THEN p
    ELSE CHOOSE q \in p..Len(s) + 1 :
            /\ At(s, q) \notin chars
            /\ \A r \in p..(q - 1) : At(s, r) \in chars

\* pat occurs in s at position p.
starts_with_at(s, p, pat) ==
    /\ p >= 1
    /\ p + Len(pat) - 1 <= Len(s)
    /\ \A i \in 1..Len(pat) : s[p + i - 1] = pat[i]

(***************************************************************************)
(* Rust standard library: char::is_whitespace, str::trim, str::split with  *)
(* a string pattern, str::lines.                                           *)
(***************************************************************************)
\* The characters with the Unicode property White_Space: U+0009 to U+000D,
\* U+0020, U+0085, U+00A0, U+1680, U+2000 to U+200A, U+2028, U+2029, U+202F,
\* U+205F, U+3000.
White_Space ==
    (9..13) \cup {32, 133, 160, 5760} \cup (8192..8202)
    \cup {8232, 8233, 8239, 8287, 12288}

is_whitespace(c) == c \in White_Space

\* str::trim_start, str::trim_end: from the first character that is not
\* whitespace, and up to the last one.
trim_start(s) == SubSeq(s, first_not_in(s, 1, White_Space), Len(s))

trim_end(s) ==
    SubSeq(s, 1, CHOOSE q \in 0..Len(s) :
                    /\ ~is_whitespace(At(s, q))
                    /\ \A r \in (q + 1)..Len(s) : is_whitespace(s[r]))

trim(s) == Bind(trim_start(s), LAMBDA t : trim_end(t))

\* str::split(pat): every non-overlapping match of pat, left to right, ends a
\* piece; the result always has at least one piece.
\* The first match of pat in s at or after start, Len(s) + 1 when none.
next_match(s, pat, start) ==
    Min({p \in start..Len(s) + 1 : p = Len(s) + 1 \/ starts_with_at(s, p, pat)})

RECURSIVE split_from(_, _, _)
split_from(s, pat, start) ==
    Bind(next_match(s, pat, start), LAMBDA m :
        IF m > Len(s) THEN <<SubSeq(s, start, Len(s))>>
        ELSE <<SubSeq(s, start, m - 1)>> \o split_from(s, pat, m + Len(pat)))

split(s, pat) == split_from(s, pat, 1)

\* The "\r" before the "\n" that ended a line is not part of the line.
strip_cr(l) ==
    IF l # <<>> /\ l[Len(l)] = CR THEN SubSeq(l, 1, Len(l) - 1) ELSE l

\* str::lines: every "\n" ends a line, and the "\r" before it is removed with
\* it; what follows the last "\n" is a line when it is not empty, taken as
\* it is (a "\r" at the very end of the text stays).
lines(s) ==
    Bind(split(s, <<NL>>), LAMBDA parts :
        [i \in 1..(IF parts[Len(parts)] = <<>> THEN Len(parts) - 1
                   ELSE Len(parts))
           |-> IF i < Len(parts) THEN strip_cr(parts[i]) ELSE parts[i]])

(***************************************************************************)
(* Unsigned 64-bit numbers (usize, and the significand serde_json parses   *)
(* into) are kept as their decimal digits, most significant first, without *)
(* leading zeros (zero is the one digit 0).                                *)
(***************************************************************************)
Digits == 48..57

DigitVal(c) == c - 48

\* The digits of the decimal written as the string literal lit.
Dec(lit) == [i \in 1..Len(lit) |-> DigitVal(Ch(SubSeq(lit, i, i)))]

\* The digits of the natural number n.
RECURSIVE usize(_)
usize(n) == IF n < 10 THEN <<n>> ELSE Append(usize(n \div 10), n % 10)

\* Integer::cmp on the digits.
usize_cmp(x, y) ==
    IF Len(x) # Len(y) THEN (IF Len(x) < Len(y) THEN "Less" ELSE "Greater")
    ELSE IF x = y THEN "Equal"
    ELSE Bind(Min({i \in 1..Len(x) : x[i] # y[i]}), LAMBDA i :
            IF x[i] < y[i] THEN "Less" ELSE "Greater")

\* significand * 10 + digit
push_digit(significand, digit) ==
    IF significand = <<0>> THEN <<digit>> ELSE Append(significand, digit)

U64_MAX == Dec("18446744073709551615")

\* 2^63, the magnitude of i64::MIN
I64_MIN_ABS == Dec("9223372036854775808")

(***************************************************************************)
(* chrono: Utc.datetime_from_str(s, FORMAT) with FORMAT "%Y%m%dT%H%M%SZ"   *)
(* (format::parse over the format's items, each number stored into Parsed  *)
(* by a setter that checks its range, then Parsed -> NaiveDate and         *)
(* NaiveTime), and DateTime::with_timezone.                                *)
(***************************************************************************)
\* chrono's ParseErrorKind messages.
TOO_SHORT == "premature end of input"
INVALID == "input contains invalid characters"
OUT_OF_RANGE == "input is out of range"
TOO_LONG == "trailing input"

\* The limits of i32 (Parsed::set_year) and of NaiveDate's years.
I32_MAX == 2147483647
I32_MIN == (0 - 2147483647) - 1
MAX_YEAR == 262142
MIN_YEAR == 0 - 262143

\* The digits format::scan::number reads from p: at most max of them.
scan_digits(s, p, max) ==
    Bind(first_not_in(s, p, Digits), LAMBDA q : IF q - p > max THEN p + max ELSE q)

\* The number the digits s[p..q-1] write, as its digits without leading
\* zeros.
number_digits(s, p, q) ==
    Bind(first_not_in(SubSeq(s, 1, q - 1), p, {48}), LAMBDA z :
        IF z >= q THEN <<0>> ELSE [i \in 1..(q - z) |-> DigitVal(s[z + i - 1])])

I64_MAX == Dec("9223372036854775807")

\* format::scan::number(s, min, max) on s[p..]: between min and max ASCII
\* digits, their value n an i64 (checked_mul(10) and checked_add(digit) over
\* the digits: a value past i64::MAX is OUT_OF_RANGE).
scan_number(s, p, min, max) ==
    IF Len(s) - p + 1 < min THEN [err |-> TOO_SHORT, pos |-> p, n |-> <<0>>]
    ELSE Bind(scan_digits(s, p, max), LAMBDA q :
            IF q - p < min THEN [err |-> INVALID, pos |-> p, n |-> <<0>>]
            ELSE Bind(number_digits(s, p, q), LAMBDA n :
                    IF usize_cmp(n, I64_MAX) = "Greater"
                    THEN [err |-> OUT_OF_RANGE, pos |-> p, n |-> <<0>>]
                    ELSE [err |-> "", pos |-> q, n |-> n]))

\* i32::try_from of the i64 with the sign sgn (1 or -1) and the digits n.
RECURSIVE i32_value(_, _, _)
i32_value(n, sgn, acc) ==
    IF n = <<>> THEN acc ELSE i32_value(Tail(n), sgn, acc * 10 + sgn * Head(n))

i32_try_from(n, sgn) ==
    IF usize_cmp(n, IF sgn = 1 THEN usize(I32_MAX) ELSE Dec("2147483648")) = "Greater"
    THEN [fits |-> FALSE, n |-> 0]
    ELSE [fits |-> TRUE, n |-> i32_value(n, sgn, 0)]

\* const FORMAT: the items StrftimeItems yields for "%Y%m%dT%H%M%SZ"
\* (w: the numeric item's maximal width; lo, hi: the range its setter in
\* Parsed accepts; c: the character of a literal).
FORMAT ==
    << [k |-> "num", f |-> "year",   w |-> 4, lo |-> I32_MIN, hi |-> I32_MAX],
       [k |-> "num", f |-> "month",  w |-> 2, lo |-> 1, hi |-> 12],
       [k |-> "num", f |-> "day",    w |-> 2, lo |-> 1, hi |-> 31],
       [k |-> "lit", c |-> Ch("T")],
       [k |-> "num", f |-> "hour",   w |-> 2, lo |-> 0, hi |-> 23],
       [k |-> "num", f |-> "minute", w |-> 2, lo |-> 0, hi |-> 59],
       [k |-> "num", f |-> "second", w |-> 2, lo |-> 0, hi |-> 60],
       [k |-> "lit", c |-> Ch("Z")] >>

\* Where the digits of a numeric item start: s.trim_start().
skip_space(s, p) == first_not_in(s, p, White_Space)

\* One numeric item: %Y may carry a sign (and then any number of digits);
\* the others are unsigned, of 1 to w digits. The item's setter in Parsed
\* takes the value as an i32 and refuses one outside the item's range.
parse_numeric(s, p0, item) ==
    Bind(skip_space(s, p0), LAMBDA p :
      Bind(IF item.f = "year" /\ At(s, p) = Ch("-") THEN 0 - 1 ELSE 1, LAMBDA sgn :
        Bind(IF item.f = "year" /\ At(s, p) \in {Ch("-"), Ch("+")}
             THEN scan_number(s, p + 1, 1, Len(s) + 1)
             ELSE scan_number(s, p, 1, item.w), LAMBDA r :
            IF r.err # "" THEN [err |-> r.err, pos |-> p, n |-> 0]
            ELSE Bind(i32_try_from(r.n, sgn), LAMBDA v :
                    IF ~v.fits \/ v.n < item.lo \/ v.n > item.hi
                    THEN [err |-> OUT_OF_RANGE, pos |-> p, n |-> 0]
                    ELSE [err |-> "", pos |-> r.pos, n |-> v.n]))))

\* format::parse: the items in order, the first failure ends the parse; input
\* left over after the last item is TOO_LONG.
RECURSIVE parse_items(_, _, _, _)
parse_items(s, p, items, parsed) ==
    IF items = <<>>
    THEN IF p <= Len(s) THEN [err |-> TOO_LONG, parsed |-> parsed]
         ELSE [err |-> "", parsed |-> parsed]
    ELSE IF Head(items).k = "lit"
    THEN IF p > Len(s) THEN [err |-> TOO_SHORT, parsed |-> parsed]
         ELSE IF s[p] # Head(items).c THEN [err |-> INVALID, parsed |-> parsed]
         ELSE parse_items(s, p + 1, Tail(items), parsed)
    ELSE Bind(parse_numeric(s, p, Head(items)), LAMBDA r :
            IF r.err # "" THEN [err |-> r.err, parsed |-> parsed]
            ELSE Bind([parsed EXCEPT ![Head(items).f] = r.n], LAMBDA next :
                    parse_items(s, r.pos, Tail(items), next)))

is_leap_year(y) == (y % 4 = 0 /\ y % 100 # 0) \/ y % 400 = 0

days_in_month(y, m) ==
    IF m = 2 THEN (IF is_leap_year(y) THEN 29 ELSE 28)
    ELSE IF m \in {4, 6, 9, 11} THEN 30 ELSE 31

RECURSIVE days_before_month(_, _)
days_before_month(y, m) ==
    IF m <= 1 THEN 0 ELSE days_before_month(y, m - 1) + days_in_month(y, m - 1)

\* Parsed::to_naive_date (NaiveDate::from_ymd_opt) and to_naive_time: a
\* NaiveDate is a year and the day of that year, a NaiveTime the second of
\* the day and the fraction (a second of 60 is a leap second: second 59 with
\* a fraction of one second).
to_naive_datetime(parsed) ==
    IF \/ parsed.year < MIN_YEAR
       \/ parsed.year > MAX_YEAR
       \/ parsed.month \notin 1..12
       \/ parsed.day < 1
       \/ parsed.day > days_in_month(parsed.year, parsed.month)
       \/ parsed.hour \notin 0..23
       \/ parsed.minute \notin 0..59
       \/ parsed.second \notin 0..60
    THEN [err |-> OUT_OF_RANGE, year |-> 0, ordinal |-> 0, secs |-> 0, leap |-> FALSE]
    ELSE [err |-> "",
          year |-> parsed.year,
          ordinal |-> days_before_month(parsed.year, parsed.month) + parsed.day,
          secs |-> parsed.hour * 3600 + parsed.minute * 60
                   + (IF parsed.second = 60 THEN 59 ELSE parsed.second),
          leap |-> parsed.second = 60]

\* Utc.datetime_from_str(s, FORMAT)
datetime_from_str(s) ==
    Bind(parse_items(s, 1, FORMAT,
                     [year |-> 0, month |-> 0, day |-> 0,
                      hour |-> 0, minute |-> 0, second |-> 0]), LAMBDA r :
        IF r.err # ""
        THEN [err |-> r.err, year |-> 0, ordinal |-> 0, secs |-> 0, leap |-> FALSE]
        ELSE to_naive_datetime(r.parsed))

\* DateTime<Utc>::with_timezone(&Local): the same instant, shown in the
\* local offset; a DateTime keeps its instant as the UTC date and time.
with_timezone(dt, tz) ==
    [year |-> dt.year, ordinal |-> dt.ordinal, secs |-> dt.secs,
     leap |-> dt.leap, tz |-> tz]

\* Option<DateTime<Local>>
None == [some |-> FALSE]
Some(v) == [some |-> TRUE, v |-> v]

(***************************************************************************)
(* serde_json: the parts of the deserializer that                          *)
(* serde_json::from_str::<Vec<Session>> runs, as a decoder over the text.  *)
(* A result is [err, pos, v]: err is "" on success and serde_json's        *)
(* message otherwise, without its position suffix, without the description *)
(* of the value found where a type or a value is wrong, and with an        *)
(* apostrophe where serde_json writes a backquote;                         *)
(* pos is the place after what was read.                                   *)
(***************************************************************************)
Ok(p, v) == [err |-> "", pos |-> p, v |-> v]
Err(msg) == [err |-> msg, pos |-> 0, v |-> <<>>]

\* ErrorCode's messages.
EofValue == "EOF while parsing a value"
EofList == "EOF while parsing a list"
EofObject == "EOF while parsing an object"
EofString == "EOF while parsing a string"
InvalidNumber == "invalid number"
NumberOutOfRange == "number out of range"
InvalidEscape == "invalid escape"
ControlCharacter == "control character (\\u0000-\\u001F) found while parsing a string"
ExpectedSomeValue == "expected value"
ExpectedSomeIdent == "expected ident"
ExpectedColon == "expected ':'"
ExpectedListCommaOrEnd == "expected ',' or ']'"
ExpectedObjectCommaOrEnd == "expected ',' or '}'"
KeyMustBeAString == "key must be a string"
TrailingComma == "trailing comma"
TrailingCharacters == "trailing characters"
LoneLeadingSurrogate == "lone leading surrogate in hex escape"
UnexpectedEndOfHexEscape == "unexpected end of hex escape"

\* The characters of JSON's syntax.
LBRACKET == Ch("[")
RBRACKET == Ch("]")
LBRACE == Ch("{")
RBRACE == Ch("}")
COMMA == Ch(",")
COLON == Ch(":")
MINUS == Ch("-")
PLUS == Ch("+")
DOT == Ch(".")
ZERO == Ch("0")
Exponent == {Ch("e"), Ch("E")}
LETTER_n == Ch("n")
LETTER_t == Ch("t")
LETTER_f == Ch("f")
LETTER_u == Ch("u")

\* Deserializer::parse_whitespace
parse_whitespace(s, p) == first_not_in(s, p, {SP, NL, TAB, CR})

\* Deserializer::parse_ident: the rest of null, true, false.
RECURSIVE parse_ident(_, _, _)
parse_ident(s, p, ident) ==
    IF ident = <<>> THEN Ok(p, <<>>)
    ELSE IF At(s, p) = EOF THEN Err(EofValue)
    ELSE IF s[p] # Head(ident) THEN Err(ExpectedSomeIdent)
    ELSE parse_ident(s, p + 1, Tail(ident))

\* The bytes of a character in UTF-8, and of the four characters from p on
\* (the text's bytes from p on when fewer are left).
len_utf8(c) == IF c < 128 THEN 1 ELSE IF c < 2048 THEN 2 ELSE IF c < 65536 THEN 3 ELSE 4

bytes_from(s, p) ==
    (IF p <= Len(s) THEN len_utf8(s[p]) ELSE 0)
    + (IF p + 1 <= Len(s) THEN len_utf8(s[p + 1]) ELSE 0)
    + (IF p + 2 <= Len(s) THEN len_utf8(s[p + 2]) ELSE 0)
    + (IF p + 3 <= Len(s) THEN len_utf8(s[p + 3]) ELSE 0)

HexVal(c) == IF c \in Digits THEN c - 48 ELSE IF c \in 65..70 THEN c - 55 ELSE c - 87

\* Read::decode_hex_escape: the next four bytes as a number in base 16.
decode_hex_escape(s, p) ==
    IF bytes_from(s, p) < 4 THEN Err(EofString)
    ELSE IF \E i \in 0..3 : At(s, p + i) \notin Digits \cup (65..70) \cup (97..102) THEN Err(InvalidEscape)
    ELSE Ok(p + 4, HexVal(s[p]) * 4096 + HexVal(s[p + 1]) * 256
                   + HexVal(s[p + 2]) * 16 + HexVal(s[p + 3]))

\* The character an escape of one letter stands for (parse_escape).
SimpleEscapes == {QT, BSL, Ch("/"), Ch("b"), Ch("f"), Ch("n"), Ch("r"), Ch("t")}

Unescape(c) ==
    CASE c = Ch("b") -> 8
      [] c = Ch("f") -> 12
      [] c = Ch("n") -> 10
      [] c = Ch("r") -> 13
      [] c = Ch("t") -> 9
      [] OTHER -> c

\* parse_unicode_escape, from after the "\u", for a string that must be
\* valid Unicode: one escape gives its character; a leading surrogate must be
\* followed by the escape of a trailing one, and the pair gives the
\* character beyond U+FFFF.
parse_unicode_escape(s, p) ==
    Bind(decode_hex_escape(s, p), LAMBDA n :
        IF n.err # "" THEN n
        ELSE IF n.v >= 56320 /\ n.v <= 57343 THEN Err(LoneLeadingSurrogate)
        ELSE IF n.v < 55296 \/ n.v > 56319 THEN n
        ELSE IF At(s, n.pos) = EOF THEN Err(EofString)
        ELSE IF s[n.pos] # BSL THEN Err(UnexpectedEndOfHexEscape)
        ELSE IF At(s, n.pos + 1) = EOF THEN Err(EofString)
        ELSE IF s[n.pos + 1] # LETTER_u THEN Err(UnexpectedEndOfHexEscape)
        ELSE Bind(decode_hex_escape(s, n.pos + 2), LAMBDA n2 :
                IF n2.err # "" THEN n2
                ELSE IF n2.v < 56320 \/ n2.v > 57343 THEN Err(LoneLeadingSurrogate)
                ELSE Ok(n2.pos, (n.v - 55296) * 1024 + (n2.v - 56320) + 65536)))

\* SliceRead::skip_to_escape: the next quote, backslash or control character
\* (below U+0020) from p on, Len(s) + 1 when there is none.
skip_to_escape(s, p) ==
    Min({q \in p..Len(s) + 1 :
            q = Len(s) + 1 \/ s[q] = QT \/ s[q] = BSL \/ s[q] < 32})

\* Read::parse_str, from after the opening quote: the string's characters,
\* the escapes replaced by what they stand for.
RECURSIVE parse_str(_, _, _)
parse_str(s, p0, acc) ==
    Bind(skip_to_escape(s, p0), LAMBDA p :
      Bind(acc \o SubSeq(s, p0, p - 1), LAMBDA got :
        IF p > Len(s) THEN Err(EofString)
        ELSE IF s[p] = QT THEN Ok(p + 1, got)
        ELSE IF s[p] # BSL THEN Err(ControlCharacter)
        ELSE IF At(s, p + 1) = EOF THEN Err(EofString)
        ELSE IF s[p + 1] \in SimpleEscapes
        THEN parse_str(s, p + 2, Append(got, Unescape(s[p + 1])))
        ELSE IF s[p + 1] = LETTER_u
        THEN Bind(parse_unicode_escape(s, p + 2), LAMBDA u :
                IF u.err # "" THEN u
                ELSE parse_str(s, u.pos, Append(got, u.v)))
        ELSE Err(InvalidEscape)))

\* Read::ignore_str, from after the opening quote: the string is read to its
\* end and dropped; the number of a \u escape is not looked at.
RECURSIVE ignore_str(_, _)
ignore_str(s, p0) ==
    Bind(skip_to_escape(s, p0), LAMBDA p :
        IF p > Len(s) THEN Err(EofString)
        ELSE IF s[p] = QT THEN Ok(p + 1, <<>>)
        ELSE IF s[p] # BSL THEN Err(ControlCharacter)
        ELSE IF At(s, p + 1) = EOF THEN Err(EofString)
        ELSE IF s[p + 1] \in SimpleEscapes THEN ignore_str(s, p + 2)
        ELSE IF s[p + 1] = LETTER_u
        THEN Bind(decode_hex_escape(s, p + 2), LAMBDA u :
                IF u.err # "" THEN u ELSE ignore_str(s, u.pos))
        ELSE Err(InvalidEscape))

\* i32::saturating_add and saturating_sub of an exponent (b is not negative)
saturating_add(a, b) == IF a > 0 /\ b > I32_MAX - a THEN I32_MAX ELSE a + b
saturating_sub(a, b) == IF a < 0 /\ b > (a + I32_MAX) + 1 THEN I32_MIN ELSE a - b

\* ParserNumber: U64 with its digits, I64 (a negative integer) or F64.
U64(n) == [kind |-> "U64", n |-> n]
I64 == [kind |-> "I64"]
F64 == [kind |-> "F64"]

\* For a significand of d digits, the least one whose product with
\* 10^(309 - d), computed in f64, is infinite.
F64_OVERFLOW ==
    << Dec("2"), Dec("18"), Dec("180"), Dec("1798"), Dec("17977"),
       Dec("179770"), Dec("1797694"), Dec("17976932"), Dec("179769314"),
       Dec("1797693135"), Dec("17976931349"), Dec("179769313487"),
       Dec("1797693134863"), Dec("17976931348624"), Dec("179769313486232"),
       Dec("1797693134862316"), Dec("17976931348623158"),
       Dec("179769313486231600"), Dec("1797693134862315649"),
       Dec("17976931348623156225") >>

\* Deserializer::f64_from_parts: significand * 10^exponent as an f64; a
\* product that is infinite is refused.
f64_from_parts(p, significand, exponent) ==
    IF /\ significand # <<0>>
       /\ exponent >= 0
       /\ \/ exponent > 308
          \/ Len(significand) + exponent > 309
          \/ /\ Len(significand) + exponent = 309
             /\ usize_cmp(significand, F64_OVERFLOW[Len(significand)]) # "Less"
    THEN Err(NumberOutOfRange)
    ELSE Ok(p, F64)

\* Deserializer::parse_exponent_overflow
parse_exponent_overflow(s, p, zero_significand, positive_exp) ==
    IF ~zero_significand /\ positive_exp THEN Err(NumberOutOfRange)
    ELSE Ok(first_not_in(s, p, Digits), F64)

\* The digits of an exponent after the first, from p: exp is the value so
\* far; a value past i32::MAX is an overflow.
RECURSIVE exponent_digits(_, _, _)
exponent_digits(s, p, exp) ==
    IF At(s, p) \notin Digits THEN [pos |-> p, exp |-> exp, overflow |-> FALSE]
    ELSE IF /\ exp >= I32_MAX \div 10
            /\ (exp > I32_MAX \div 10 \/ DigitVal(s[p]) > I32_MAX % 10)
    THEN [pos |-> p + 1, exp |-> exp, overflow |-> TRUE]
    ELSE exponent_digits(s, p + 1, exp * 10 + DigitVal(s[p]))

\* Deserializer::parse_exponent, p at the e or E.
parse_exponent(s, p, significand, starting_exp) ==
    Bind(IF At(s, p + 1) \in {PLUS, MINUS} THEN p + 2 ELSE p + 1, LAMBDA q :
        IF At(s, q) = EOF THEN Err(EofValue)
        ELSE IF s[q] \notin Digits THEN Err(InvalidNumber)
        ELSE Bind(exponent_digits(s, q + 1, DigitVal(s[q])), LAMBDA e :
                IF e.overflow
                THEN parse_exponent_overflow(s, e.pos, significand = <<0>>,
                                             At(s, p + 1) # MINUS)
                ELSE f64_from_parts(e.pos, significand,
                        IF At(s, p + 1) = MINUS
                        THEN saturating_sub(starting_exp, e.exp)
                        ELSE saturating_add(starting_exp, e.exp))))

\* The digits after the decimal point, from p: each is taken into the
\* significand until the significand would pass u64::MAX.
RECURSIVE decimal_digits(_, _, _, _)
decimal_digits(s, p, significand, count) ==
    IF At(s, p) \notin Digits
    THEN [pos |-> p, significand |-> significand, count |-> count,
          overflow |-> FALSE]
    ELSE Bind(push_digit(significand, DigitVal(s[p])), LAMBDA next :
            IF usize_cmp(next, U64_MAX) = "Greater"
            THEN [pos |-> p, significand |-> significand, count |-> count,
                  overflow |-> TRUE]
            ELSE decimal_digits(s, p + 1, next, count + 1))

\* Deserializer::parse_decimal (and parse_decimal_overflow), p at the point.
parse_decimal(s, p, significand, exponent_before_decimal_point) ==
    Bind(decimal_digits(s, p + 1, significand, 0), LAMBDA d :
      Bind(IF d.overflow THEN first_not_in(s, d.pos, Digits) ELSE d.pos, LAMBDA q :
        IF ~d.overflow /\ d.count = 0
        THEN (IF At(s, q) = EOF THEN Err(EofValue) ELSE Err(InvalidNumber))
        ELSE IF At(s, q) \in Exponent
        THEN parse_exponent(s, q, d.significand,
                            exponent_before_decimal_point - d.count)
        ELSE f64_from_parts(q, d.significand,
                            exponent_before_decimal_point - d.count)))

\* Deserializer::parse_number, p after the integer's digits.
parse_number(s, p, positive, significand) ==
    IF At(s, p) = DOT THEN parse_decimal(s, p, significand, 0)
    ELSE IF At(s, p) \in Exponent THEN parse_exponent(s, p, significand, 0)
    ELSE IF positive THEN Ok(p, U64(significand))
    ELSE IF /\ significand # <<0>>
            /\ usize_cmp(significand, I64_MIN_ABS) # "Greater"
    THEN Ok(p, I64)
    ELSE Ok(p, F64)

\* Deserializer::parse_long_integer: the digits of an integer past
\* u64::MAX only count.
parse_long_integer(s, p, significand) ==
    Bind(first_not_in(s, p, Digits), LAMBDA q :
        IF At(s, q) = DOT THEN parse_decimal(s, q, significand, q - p)
        ELSE IF At(s, q) \in Exponent THEN parse_exponent(s, q, significand, q - p)
        ELSE f64_from_parts(q, significand, q - p))

\* The digits of an integer after the first, from p.
RECURSIVE integer_digits(_, _, _, _)
integer_digits(s, p, positive, significand) ==
    IF At(s, p) \notin Digits THEN parse_number(s, p, positive, significand)
    ELSE Bind(push_digit(significand, DigitVal(s[p])), LAMBDA next :
            IF usize_cmp(next, U64_MAX) = "Greater"
            THEN parse_long_integer(s, p, significand)
            ELSE integer_digits(s, p + 1, positive, next))

\* Deserializer::parse_integer, p after the sign.
parse_integer(s, p, positive) ==
    IF At(s, p) = EOF THEN Err(EofValue)
    ELSE IF s[p] = ZERO
    THEN (IF At(s, p + 1) \in Digits THEN Err(InvalidNumber)
          ELSE parse_number(s, p + 1, positive, <<0>>))
    ELSE IF s[p] \in Digits
    THEN integer_digits(s, p + 1, positive, <<DigitVal(s[p])>>)
    ELSE Err(InvalidNumber)

\* de::Error::invalid_type: a value of another type than the expected one.
invalid_type(expected) == Err("invalid type: expected " \o expected)

\* Deserializer::peek_invalid_type: the value found is parsed, and its own
\* error comes before the error of its type.
peek_invalid_type(s, p, expected) ==
    Bind(IF At(s, p) \in {LETTER_n, LETTER_t, LETTER_f}
         THEN parse_ident(s, p + 1, IF s[p] = LETTER_n THEN Str("ull")
                                    ELSE IF s[p] = LETTER_t THEN Str("rue")
                                    ELSE Str("alse"))
         ELSE IF At(s, p) = MINUS \/ At(s, p) \in Digits
         THEN parse_integer(s, IF s[p] = MINUS THEN p + 1 ELSE p, s[p] # MINUS)
         ELSE IF At(s, p) = QT THEN parse_str(s, p + 1, <<>>)
         ELSE IF At(s, p) \in {LBRACKET, LBRACE} THEN Ok(p, <<>>)
         ELSE Err(ExpectedSomeValue), LAMBDA found :
        IF found.err # "" THEN found ELSE invalid_type(expected))

\* <String as Deserialize>::deserialize -> Deserializer::deserialize_string
deserialize_string(s, p0) ==
    Bind(parse_whitespace(s, p0), LAMBDA p :
        IF At(s, p) = EOF THEN Err(EofValue)
        ELSE IF s[p] = QT THEN parse_str(s, p + 1, <<>>)
        ELSE peek_invalid_type(s, p, "a string"))

\* <Option<String> as Deserialize>::deserialize -> deserialize_option
deserialize_option_string(s, p0) ==
    Bind(parse_whitespace(s, p0), LAMBDA p :
        IF At(s, p) = LETTER_n
        THEN Bind(parse_ident(s, p + 1, Str("ull")), LAMBDA r :
                IF r.err # "" THEN r ELSE Ok(r.pos, None))
        ELSE Bind(deserialize_string(s, p), LAMBDA r :
                IF r.err # "" THEN r ELSE Ok(r.pos, Some(r.v))))

\* <usize as Deserialize>::deserialize -> Deserializer::deserialize_u64:
\* the number is parsed, and the visitor takes an unsigned integer only.
deserialize_usize(s, p0) ==
    Bind(parse_whitespace(s, p0), LAMBDA p :
        IF At(s, p) = EOF THEN Err(EofValue)
        ELSE IF s[p] # MINUS /\ s[p] \notin Digits
        THEN peek_invalid_type(s, p, "usize")
        ELSE Bind(parse_integer(s, IF s[p] = MINUS THEN p + 1 ELSE p,
                                s[p] # MINUS), LAMBDA r :
                IF r.err # "" THEN r
                ELSE IF r.v.kind = "U64" THEN Ok(r.pos, r.v.n)
                ELSE IF r.v.kind = "I64" THEN Err("invalid value: expected usize")
                ELSE invalid_type("usize")))

\* Deserializer::ignore_integer, ignore_decimal, ignore_exponent: a number
\* -?digits(.digits)?([eE][+-]?digits)? is read and dropped; p is after the
\* sign.
ignore_exponent(s, p) ==
    Bind(IF At(s, p + 1) \in {PLUS, MINUS} THEN p + 2 ELSE p + 1, LAMBDA q :
        IF At(s, q) \in Digits THEN Ok(first_not_in(s, q, Digits), <<>>)
        ELSE Err(InvalidNumber))

ignore_decimal(s, p) ==
    Bind(first_not_in(s, p + 1, Digits), LAMBDA q :
        IF q = p + 1 THEN Err(InvalidNumber)
        ELSE IF At(s, q) \in Exponent THEN ignore_exponent(s, q)
        ELSE Ok(q, <<>>))

ignore_integer(s, p) ==
    IF At(s, p) \notin Digits THEN Err(InvalidNumber)
    ELSE IF s[p] = ZERO /\ At(s, p + 1) \in Digits THEN Err(InvalidNumber)
    ELSE Bind(IF s[p] = ZERO THEN p + 1 ELSE first_not_in(s, p, Digits), LAMBDA q :
            IF At(s, q) = DOT THEN ignore_decimal(s, q)
            ELSE IF At(s, q) \in Exponent THEN ignore_exponent(s, q)
            ELSE Ok(q, <<>>))

\* <IgnoredAny as Deserialize>::deserialize -> Deserializer::ignore_value:
\* any one JSON value is read and dropped (the value of an unknown key).
\* ignore_list and ignore_object are ignore_value's loop inside a "[" and a
\* "{" frame, accept_comma telling that a value has been read in the frame.
RECURSIVE ignore_value(_, _)
RECURSIVE ignore_list(_, _, _)
RECURSIVE ignore_object(_, _, _)
RECURSIVE ignore_member(_, _)
ignore_value(s, p0) ==
    Bind(parse_whitespace(s, p0), LAMBDA p :
        IF At(s, p) = EOF THEN Err(EofValue)
        ELSE IF s[p] = LETTER_n THEN parse_ident(s, p + 1, Str("ull"))
        ELSE IF s[p] = LETTER_t THEN parse_ident(s, p + 1, Str("rue"))
        ELSE IF s[p] = LETTER_f THEN parse_ident(s, p + 1, Str("alse"))
        ELSE IF s[p] = MINUS THEN ignore_integer(s, p + 1)
        ELSE IF s[p] \in Digits THEN ignore_integer(s, p)
        ELSE IF s[p] = QT THEN ignore_str(s, p + 1)
        ELSE IF s[p] = LBRACKET THEN ignore_list(s, p + 1, FALSE)
        ELSE IF s[p] = LBRACE THEN ignore_object(s, p + 1, FALSE)
        ELSE Err(ExpectedSomeValue))

ignore_list(s, p0, accept_comma) ==
    Bind(parse_whitespace(s, p0), LAMBDA p :
        IF At(s, p) = EOF THEN Err(EofList)
        ELSE IF s[p] = RBRACKET THEN Ok(p + 1, <<>>)
        ELSE IF accept_comma /\ s[p] # COMMA THEN Err(ExpectedListCommaOrEnd)
        ELSE Bind(ignore_value(s, IF accept_comma THEN p + 1 ELSE p), LAMBDA r :
                IF r.err # "" THEN r ELSE ignore_list(s, r.pos, TRUE)))

ignore_object(s, p0, accept_comma) ==
    Bind(parse_whitespace(s, p0), LAMBDA p :
        IF At(s, p) = EOF THEN Err(EofObject)
        ELSE IF s[p] = RBRACE THEN Ok(p + 1, <<>>)
        ELSE IF accept_comma /\ s[p] # COMMA THEN Err(ExpectedObjectCommaOrEnd)
        ELSE ignore_member(s, IF accept_comma THEN p + 1 ELSE p))

\* A key, the colon and the value of an object that is ignored.
ignore_member(s, p0) ==
    Bind(parse_whitespace(s, p0), LAMBDA p :
        IF At(s, p) = EOF THEN Err(EofObject)
        ELSE IF s[p] # QT THEN Err(KeyMustBeAString)
        ELSE Bind(ignore_str(s, p + 1), LAMBDA k :
            IF k.err # "" THEN k
            ELSE Bind(parse_whitespace(s, k.pos), LAMBDA c :
                IF At(s, c) = EOF THEN Err(EofObject)
                ELSE IF s[c] # COLON THEN Err(ExpectedColon)
                ELSE Bind(ignore_value(s, c + 1), LAMBDA r :
                        IF r.err # "" THEN r
                        ELSE ignore_object(s, r.pos, TRUE)))))

\* SeqAccess::next_element_seed, up to the element: v is TRUE and pos the
\* element's start, or v is FALSE at the closing bracket (not yet consumed).
next_element(s, p0, first) ==
    Bind(parse_whitespace(s, p0), LAMBDA p :
        IF At(s, p) = EOF THEN Err(EofList)
        ELSE IF s[p] = RBRACKET THEN Ok(p, FALSE)
        ELSE IF first THEN Ok(p, TRUE)
        ELSE IF s[p] # COMMA THEN Err(ExpectedListCommaOrEnd)
        ELSE Bind(parse_whitespace(s, p + 1), LAMBDA q :
                IF At(s, q) = RBRACKET THEN Err(TrailingComma)
                ELSE IF At(s, q) = EOF THEN Err(EofValue)
                ELSE Ok(q, TRUE)))

\* Deserializer::end_seq
end_seq(s, p0) ==
    Bind(parse_whitespace(s, p0), LAMBDA p :
        IF At(s, p) = EOF THEN Err(EofList)
        ELSE IF s[p] = RBRACKET THEN Ok(p + 1, <<>>)
        ELSE IF s[p] = COMMA /\ At(s, parse_whitespace(s, p + 1)) = RBRACKET
        THEN Err(TrailingComma)
        ELSE Err(TrailingCharacters))

\* MapAccess::next_key_seed: v is [more |-> TRUE, key |-> the key] (pos after
\* the key), or more is FALSE at the closing brace (pos after it:
\* Deserializer::end_map).
next_key(s, p0, first) ==
    Bind(parse_whitespace(s, p0), LAMBDA p :
        IF At(s, p) = EOF THEN Err(EofObject)
        ELSE IF s[p] = RBRACE THEN Ok(p + 1, [more |-> FALSE, key |-> <<>>])
        ELSE IF ~first /\ s[p] # COMMA THEN Err(ExpectedObjectCommaOrEnd)
        ELSE Bind(IF first THEN p ELSE parse_whitespace(s, p + 1), LAMBDA q :
                IF At(s, q) = EOF THEN Err(EofValue)
                ELSE IF s[q] = RBRACE THEN Err(TrailingComma)
                ELSE IF s[q] # QT THEN Err(KeyMustBeAString)
                ELSE Bind(parse_str(s, q + 1, <<>>), LAMBDA k :
                        IF k.err # "" THEN k
                        ELSE Ok(k.pos, [more |-> TRUE, key |-> k.v]))))

\* Deserializer::parse_object_colon: pos is after the colon.
parse_object_colon(s, p0) ==
    Bind(parse_whitespace(s, p0), LAMBDA p :
        IF At(s, p) = EOF THEN Err(EofObject)
        ELSE IF s[p] # COLON THEN Err(ExpectedColon)
        ELSE Ok(p + 1, <<>>))

\* mod my_date_format: deserialize
my_date_format_deserialize(s, p) ==
    Bind(deserialize_string(s, p), LAMBDA r :
        IF r.err # "" THEN r
        ELSE Bind(datetime_from_str(r.v), LAMBDA dt :
                IF dt.err # "" THEN Err(dt.err)
                ELSE Ok(r.pos, with_timezone(dt, "Local"))))

\* mod my_optional_date_format: deserialize
my_optional_date_format_deserialize(s, p) ==
    Bind(deserialize_string(s, p), LAMBDA r :
        IF r.err # "" THEN r
        ELSE Bind(datetime_from_str(r.v), LAMBDA dt :
                IF dt.err # "" THEN Err(dt.err)
                ELSE Ok(r.pos, Some(with_timezone(dt, "Local")))))

\* The keys of struct Session's fields.
KeyId == Str("id")
KeyStart == Str("start")
KeyEnd == Str("end")
KeyTags == Str("tags")
KeyAnnotation == Str("annotation")

\* The field's name in a message.
FieldName(key) ==
    CASE key = KeyId -> "id"
      [] key = KeyStart -> "start"
      [] key = KeyEnd -> "end"
      [] key = KeyTags -> "tags"
      [] key = KeyAnnotation -> "annotation"

\* de::Error::missing_field, duplicate_field, invalid_length(n, &expecting)
missing_field(key) == "missing field '" \o FieldName(key) \o "'"
duplicate_field(key) == "duplicate field '" \o FieldName(key) \o "'"
\* The struct visitor's `expecting`: what invalid_length says was expected.
expecting == "struct Session with 5 elements"

invalid_length(n) == "invalid length " \o ToString(n) \o ", expected " \o expecting

\* `end` without #[serde(default)]: a record without the key is refused.
end_missing_required == [err |-> missing_field(KeyEnd), v |-> None]

\* #[serde(default)] on `end`: a record without the key has end None.
\* (id, start and tags are required; annotation, an Option without a `with`
\* module, is None when missing.)
end_missing == [err |-> "", v |-> None]

\* struct Session
Session(id, start, end, tags, annotation) ==
    [id |-> id, start |-> start, end |-> end, tags |-> tags,
     annotation |-> annotation]

NoFields ==
    [seen |-> {}, id |-> <<0>>, start |-> <<>>, end |-> None, tags |-> <<>>,
     annotation |-> None]

RECURSIVE deserialize_element(_, _, _)
RECURSIVE visit_seq(_, _, _, _, _)
RECURSIVE visit_map(_, _, _, _)

\* Deserializer::deserialize_seq with the Vec visitor: every element up to
\* the closing bracket, in order.
visit_seq(s, p0, first, kind, acc) ==
    Bind(next_element(s, p0, first), LAMBDA e :
        IF e.err # "" THEN e
        ELSE IF ~e.v
        THEN Bind(end_seq(s, e.pos), LAMBDA c :
                IF c.err # "" THEN c ELSE Ok(c.pos, acc))
        ELSE Bind(deserialize_element(s, e.pos, kind), LAMBDA r :
                IF r.err # "" THEN r
                ELSE Bind(Append(acc, r.v), LAMBDA more :
                        visit_seq(s, r.pos, FALSE, kind, more))))

deserialize_seq(s, p0, kind) ==
    Bind(parse_whitespace(s, p0), LAMBDA p :
        IF At(s, p) = EOF THEN Err(EofValue)
        ELSE IF s[p] = LBRACKET THEN visit_seq(s, p + 1, TRUE, kind, <<>>)
        ELSE peek_invalid_type(s, p, "a sequence"))

\* The value of one key of a Session record, by the field's type.
deserialize_field(s, p, key) ==
    IF key = KeyId THEN deserialize_usize(s, p)
    ELSE IF key = KeyStart THEN my_date_format_deserialize(s, p)
    ELSE IF key = KeyEnd THEN my_optional_date_format_deserialize(s, p)
    ELSE IF key = KeyTags THEN deserialize_seq(s, p, "String")
    ELSE IF key = KeyAnnotation THEN deserialize_option_string(s, p)
    ELSE ignore_value(s, p)

set_field(acc, key, v) ==
    IF key = KeyId THEN [acc EXCEPT !.id = v, !.seen = @ \cup {key}]
    ELSE IF key = KeyStart THEN [acc EXCEPT !.start = v, !.seen = @ \cup {key}]
    ELSE IF key = KeyEnd THEN [acc EXCEPT !.end = v, !.seen = @ \cup {key}]
    ELSE IF key = KeyTags THEN [acc EXCEPT !.tags = v, !.seen = @ \cup {key}]
    ELSE IF key = KeyAnnotation
    THEN [acc EXCEPT !.annotation = v, !.seen = @ \cup {key}]
    ELSE acc

\* The end of the derived visitor's visit_map: the required fields, in the
\* order of the struct, then the record.
finish_map(p, acc) ==
    IF KeyId \notin acc.seen THEN Err(missing_field(KeyId))
    ELSE IF KeyStart \notin acc.seen THEN Err(missing_field(KeyStart))
    ELSE IF KeyEnd \notin acc.seen /\ end_missing.err # ""
    THEN Err(end_missing.err)
    ELSE IF KeyTags \notin acc.seen THEN Err(missing_field(KeyTags))
    ELSE Ok(p, Session(acc.id, acc.start,
                       IF KeyEnd \in acc.seen THEN acc.end ELSE end_missing.v,
                       acc.tags, acc.annotation))

\* #[derive(Deserialize)] for Session, a JSON object: the derived visit_map
\* over MapAccess (a key may come once; the value of an unknown key is
\* ignored).
visit_map(s, p0, first, acc) ==
    Bind(next_key(s, p0, first), LAMBDA key :
        IF key.err # "" THEN key
        ELSE IF ~key.v.more THEN finish_map(key.pos, acc)
        ELSE IF key.v.key \in acc.seen THEN Err(duplicate_field(key.v.key))
        ELSE Bind(parse_object_colon(s, key.pos), LAMBDA col :
                IF col.err # "" THEN col
                ELSE Bind(deserialize_field(s, col.pos, key.v.key), LAMBDA r :
                        IF r.err # "" THEN r
                        ELSE Bind(set_field(acc, key.v.key, r.v), LAMBDA more :
                                visit_map(s, r.pos, FALSE, more)))))

\* The fields of struct Session in their order.
Fields == <<KeyId, KeyStart, KeyEnd, KeyTags, KeyAnnotation>>

\* What the i-th field is when the array ends before it: an error but for
\* `end`, which has a default.
missing_element(i) ==
    IF Fields[i] = KeyEnd THEN end_missing
    ELSE [err |-> invalid_length(i - 1), v |-> <<>>]

\* One field of a Session written as a JSON array of its fields, by the
\* field's place: a turn of the derived visit_seq.
struct_element(s, p0, i) ==
    Bind(next_element(s, p0, i = 1), LAMBDA e :
        IF e.err # "" THEN e
        ELSE IF ~e.v THEN (IF missing_element(i).err # ""
                           THEN Err(missing_element(i).err)
                           ELSE Ok(e.pos, missing_element(i).v))
        ELSE deserialize_field(s, e.pos, Fields[i]))

\* The derived visit_seq: the fields from the i-th on, then the record.
RECURSIVE visit_struct_seq(_, _, _, _)
visit_struct_seq(s, p0, i, acc) ==
    IF i > Len(Fields)
    THEN Bind(end_seq(s, p0), LAMBDA c :
            IF c.err # "" THEN c
            ELSE Ok(c.pos, Session(acc.id, acc.start, acc.end, acc.tags,
                                   acc.annotation)))
    ELSE Bind(struct_element(s, p0, i), LAMBDA f :
            IF f.err # "" THEN f
            ELSE Bind(set_field(acc, Fields[i], f.v), LAMBDA more :
                    visit_struct_seq(s, f.pos, i + 1, more)))

\* <Session as Deserialize>::deserialize -> Deserializer::deserialize_struct
deserialize_Session(s, p0) ==
    Bind(parse_whitespace(s, p0), LAMBDA p :
        IF At(s, p) = EOF THEN Err(EofValue)
        ELSE IF s[p] = LBRACE THEN visit_map(s, p + 1, TRUE, NoFields)
        ELSE IF s[p] = LBRACKET THEN visit_struct_seq(s, p + 1, 1, NoFields)
        ELSE peek_invalid_type(s, p, "struct Session"))

deserialize_element(s, p, kind) ==
    IF kind = "Session" THEN deserialize_Session(s, p)
    ELSE deserialize_string(s, p)

\* serde_json::from_str::<T>, T one of "Vec<Session>" and "Session": the
\* value, then Deserializer::end (only whitespace may follow).
from_str(data, T) ==
    Bind(IF T = "Session" THEN deserialize_Session(data, 1)
         ELSE deserialize_seq(data, 1, "Session"), LAMBDA r :
        IF r.err # "" THEN r
        ELSE IF parse_whitespace(data, r.pos) <= Len(data)
        THEN Err(TrailingCharacters)
        ELSE r)

(***************************************************************************)
(* lib.rs: ReportError, TimewarriorData, Session.                          *)
(***************************************************************************)
\* enum ReportError and its From impls (the error's to_string is the message)
ReportError(variant, msg) == [variant |-> variant, msg |-> msg]
From_io_Error(msg) == ReportError("IO", msg)
From_serde_json_Error(msg) == ReportError("SerdeJson", msg)

\* Result<_, ReportError>, and a panic (the call does not return).
ResultOk(v) == [kind |-> "Ok", v |-> v]
ResultErr(e) == [kind |-> "Err", e |-> e]
Panic(msg) == [kind |-> "Panic", msg |-> msg]
Running == [kind |-> "Running"]

\* impl Session: fn from_json
from_json(data) ==
    Bind(from_str(data, "Vec<Session>"), LAMBDA r :
        IF r.err # "" THEN ResultErr(From_serde_json_Error(r.err))
        ELSE ResultOk(r.v))

\* An equality that follows the ordering: the ids alone.
Session_eq_by_id(a, b) == a.id = b.id

\* impl PartialEq for Session
Session_eq(a, b) ==
    /\ a.start = b.start
    /\ a.end = b.end
    /\ a.id = b.id
    /\ a.tags = b.tags
    /\ a.annotation = b.annotation

\* impl Ord for Session
Session_cmp(a, b) == usize_cmp(a.id, b.id)

\* impl PartialOrd for Session
Session_partial_cmp(a, b) == Some(Session_cmp(a, b))

\* struct TimewarriorData
TimewarriorData(cfg, sess) == [config |-> cfg, sessions |-> sess]

\* Vec<Session> == Vec<Session>: the same length, and equal element by element
Vec_eq(a, b) ==
    /\ Len(a) = Len(b)
    /\ \A i \in 1..Len(a) : Session_eq(a[i], b[i])

\* impl PartialEq for TimewarriorData
TimewarriorData_eq(a, b) == a.config = b.config /\ Vec_eq(a.sessions, b.sessions)

\* HashMap::new and HashMap::insert (a later insert of a key replaces it).
HashMap_new == [k \in {} |-> <<>>]
HashMap_insert(m, k, v) ==
    [x \in DOMAIN m \cup {k} |-> IF x = k THEN v ELSE m[x]]

\* The loop body without the line break: format!("{}{}", input_string, line)
Accumulate_no_break(acc, line) == acc \o line

\* from_stdin's loop body: format!("{}\n{}", input_string, line)
Accumulate(acc, line) == acc \o <<NL>> \o line

\* BufRead::lines, one item: the text up to the next "\n" (a "\r" before it
\* removed), and what is left of the stream.
read_line(stream) ==
    Bind(next_match(stream, <<NL>>, 1), LAMBDA e :
        [line |-> IF e <= Len(stream) THEN strip_cr(SubSeq(stream, 1, e - 1))
                  ELSE stream,
         rest |-> SubSeq(stream, e + 1, Len(stream))])

(***************************************************************************)
(* The report texts the model is run on: up to MaxHeaderLines header lines,*)
(* a line break or a blank line, and a body.                               *)
(***************************************************************************)
MaxHeaderLines == 2

HeaderLinePool == {Str("k: v"), Str("k: w"), Str("a: b: c"), Str("bad")}

\* Wire timestamps with the UTC date and time each names (year, day of the
\* year, second of the day), the first two those of the tests.
T1 == [wire |-> Str("20210711T103400Z"),
       year |-> 2021, ordinal |-> 192, secs |-> 38040]
T2 == [wire |-> Str("20210711T113400Z"),
       year |-> 2021, ordinal |-> 192, secs |-> 41640]
T3 == [wire |-> Str("20240301T235959Z"),
       year |-> 2024, ordinal |-> 61, secs |-> 86399]
\* Not of the form YYYYMMDDTHHMMSSZ: too short, and not numeric.
TShort == [wire |-> Str("20210711T1034Z"),
           year |-> 0, ordinal |-> 0, secs |-> 0]
TAlpha == [wire |-> Str("2021071XT103400Z"),
           year |-> 0, ordinal |-> 0, secs |-> 0]

\* A session record as it is written: the id's JSON text, the timestamps,
\* the tags, the annotation; end, tags and annotation may be left out.
Rec(id, idText, start, hasEnd, end, hasTags, tags, hasAnn, ann) ==
    [id |-> id, idText |-> idText, start |-> start, hasEnd |-> hasEnd,
     end |-> end, hasTags |-> hasTags, tags |-> tags, hasAnn |-> hasAnn,
     ann |-> ann]

TagT == Str("test")
TagU == Str("u")
Note == Str("this is a test")

\* R1 and R2 are the records of the tests create_session_without_end_date
\* and create_session_with_end_date.
R1 == Rec(usize(1), Str("1"), T1, FALSE, T1, TRUE, <<TagT>>, TRUE, Note)
R2 == Rec(usize(1), Str("1"), T1, TRUE, T2, TRUE, <<TagT>>, TRUE, Note)
R3 == Rec(usize(2), Str("2"), T3, TRUE, T3, TRUE, <<>>, FALSE, <<>>)
R4 == Rec(usize(3), Str("3"), T2, FALSE, T2, TRUE, <<TagT, TagU>>, FALSE, <<>>)
RShortStart == Rec(usize(1), Str("1"), TShort, FALSE, T1, TRUE, <<TagT>>, FALSE, <<>>)
RAlphaEnd == Rec(usize(2), Str("2"), T1, TRUE, TAlpha, TRUE, <<TagT>>, FALSE, <<>>)
RNoTags == Rec(usize(1), Str("1"), T1, FALSE, T1, FALSE, <<>>, FALSE, <<>>)
RTextId == Rec(usize(1), Str("\"1\""), T1, FALSE, T1, TRUE, <<>>, FALSE, <<>>)

Quoted(t) == <<QT>> \o t \o <<QT>>

RECURSIVE Joined(_, _)
Joined(parts, sep) ==
    IF parts = <<>> THEN <<>>
    ELSE IF Len(parts) = 1 THEN parts[1]
    ELSE parts[1] \o sep \o Joined(Tail(parts), sep)

RenderRec(r) ==
    Str("{") \o Quoted(KeyId) \o Str(":") \o r.idText
    \o Str(",") \o Quoted(KeyStart) \o Str(":") \o Quoted(r.start.wire)
    \o (IF r.hasEnd
        THEN Str(",") \o Quoted(KeyEnd) \o Str(":") \o Quoted(r.end.wire)
        ELSE <<>>)
    \o (IF r.hasTags
        THEN Str(",") \o Quoted(KeyTags) \o Str(":[")
             \o Joined([i \in 1..Len(r.tags) |-> Quoted(r.tags[i])], Str(","))
             \o Str("]")
        ELSE <<>>)
    \o (IF r.hasAnn
        THEN Str(",") \o Quoted(KeyAnnotation) \o Str(":") \o Quoted(r.ann)
        ELSE <<>>)
    \o Str("}")

\* The JSON array of the records, gap written after the opening bracket,
\* after each comma and before the closing bracket.
RenderArray(recs, gap) ==
    Str("[") \o gap
    \o Joined([i \in 1..Len(recs) |-> RenderRec(recs[i])], Str(",") \o gap)
    \o gap \o Str("]")

BlankLine == <<NL, NL>>

\* A body: its text, whether the text is a JSON array of session records in
\* the wire format, and then the records.
Body(text, valid, recs) == [text |-> text, valid |-> valid, recs |-> recs]
ValidBody(recs, gap) == Body(RenderArray(recs, gap), TRUE, recs)
InvalidBody(text) == Body(text, FALSE, <<>>)

BodyPool ==
    { ValidBody(<<>>, <<>>),
      ValidBody(<<R1>>, <<>>),
      ValidBody(<<R2>>, <<>>),
      ValidBody(<<R4, R3>>, <<>>),
      ValidBody(<<>>, BlankLine),
      ValidBody(<<R2, R3>>, BlankLine),
      Body(RenderArray(<<R1>>, <<>>) \o <<NL>>, TRUE, <<R1>>),
      InvalidBody(<<>>),
      InvalidBody(Str("[")),
      InvalidBody(RenderArray(<<>>, <<>>) \o BlankLine \o Str("x")),
      InvalidBody(RenderArray(<<RShortStart>>, <<>>)),
      InvalidBody(RenderArray(<<R1, RAlphaEnd>>, <<>>)),
      InvalidBody(RenderArray(<<RNoTags>>, <<>>)),
      InvalidBody(RenderArray(<<RTextId>>, <<>>)) }

RECURSIVE SeqsUpTo(_, _)
SeqsUpTo(S, n) ==
    IF n = 0 THEN {<<>>}
    ELSE LET shorter == SeqsUpTo(S, n - 1)
         IN shorter \cup {Append(q, x) : q \in shorter, x \in S}

Headers == SeqsUpTo(HeaderLinePool, MaxHeaderLines)

\* The text of a report: the header lines, each ended by a line break but
\* the last, then the separator and the body.
ReportText(header, sep, body) == Joined(header, <<NL>>) \o sep \o body.text

(***************************************************************************)
(* The state: one call of TimewarriorData::from_stdin or from_string.      *)
(***************************************************************************)
VARIABLES
    entry,         \* the function called: "from_stdin" or "from_string"
    given,         \* the report the call was made on: [header, sep, body]
    stdin,         \* from_stdin: what is left of the input stream
    lines_read,    \* from_stdin: the lines the stream has given so far
    input_string,  \* from_stdin: the text accumulated by the loop
    input,         \* from_string's argument
    input_vec,     \* from_string: the pieces of input between "\n\n"
    li,            \* from_string: the header line the loop is at
    config,        \* from_string: the HashMap being filled
    pc,            \* the call's position
    result,        \* what the call gave its caller
    lhs, rhs,      \* the two sessions of a comparison
    verdict        \* the comparison's results

vars == <<entry, given, stdin, lines_read, input_string, input, input_vec, li,
          config, pc, result, lhs, rhs, verdict>>

callVars == <<entry, given, stdin, lines_read, input_string, input, input_vec,
              li, config, pc, result>>

NoSession == Session(<<0>>, <<>>, None, <<>>, None)
NoVerdict == [done |-> FALSE]

Init ==
    /\ given \in [header : Headers, sep : {BlankLine, <<NL>>}, body : BodyPool]
    /\ entry \in {"from_stdin", "from_string"}
    /\ stdin = IF entry = "from_stdin"
               THEN ReportText(given.header, given.sep, given.body) ELSE <<>>
    /\ lines_read = <<>>
    /\ input_string = <<>>
    /\ input = IF entry = "from_string"
               THEN ReportText(given.header, given.sep, given.body) ELSE <<>>
    /\ input_vec = <<>>
    /\ li = 1
    /\ config = HashMap_new
    /\ pc = IF entry = "from_stdin" THEN "read" ELSE "split"
    /\ result = Running
    /\ lhs = NoSession
    /\ rhs = NoSession
    /\ verdict = NoVerdict

\* from_stdin: one turn of `for line in io::stdin().lock().lines()` with a
\* line read.
ReadLine ==
    /\ pc = "read"
    /\ stdin # <<>>
    /\ \E item \in {read_line(stdin)} :
          /\ input_string' = Accumulate(input_string, item.line)
          /\ lines_read' = Append(lines_read, item.line)
          /\ stdin' = item.rest
    /\ UNCHANGED <<entry, given, input, input_vec, li, config, pc, result,
                   lhs, rhs, verdict>>

\* from_stdin: `line?` on a read that failed; the io::Error becomes
\* ReportError::IO and the call returns it.
ReadError ==
    /\ pc = "read"
    /\ result' = ResultErr(From_io_Error("read failed"))
    /\ pc' = "done"
    /\ UNCHANGED <<entry, given, stdin, lines_read, input_string, input, input_vec, li,
                   config, lhs, rhs, verdict>>

\* from_stdin: the stream has ended; Self::from_string(input_string.trim().into())
EndOfInput ==
    /\ pc = "read"
    /\ stdin = <<>>
    /\ input' = trim(input_string)
    /\ pc' = "split"
    /\ UNCHANGED <<entry, given, stdin, lines_read, input_string, input_vec, li, config,
                   result, lhs, rhs, verdict>>

\* from_string: input.split("\n\n").collect(), HashMap::new()
Split ==
    /\ pc = "split"
    /\ input_vec' = split(input, <<NL, NL>>)
    /\ config' = HashMap_new
    /\ li' = 1
    /\ pc' = "header"
    /\ UNCHANGED <<entry, given, stdin, lines_read, input_string, input, result, lhs, rhs,
                   verdict>>

\* line.split(": ").collect() and the setting[0], setting[1] of the insert:
\* indexing a Vec past its end panics.
setting_of(line) == Bind(line, LAMBDA l : split(l, Str(": ")))

\* config.insert(setting[0].into(), setting[1].into())
insert_setting(cfg, setting) == HashMap_insert(cfg, setting[1], setting[2])

\* Ok(TimewarriorData { config, sessions: Session::from_json(&input_vec[1])? })
assemble(vec, cfg) ==
    IF Len(vec) < 2 THEN Panic("index out of bounds")
    ELSE Bind(from_json(vec[2]), LAMBDA r :
            IF r.kind = "Err" THEN r
            ELSE ResultOk(TimewarriorData(cfg, r.v)))

\* from_string: one turn of `for line in input_vec[0].lines()`
HeaderLine ==
    /\ pc = "header"
    /\ li <= Len(lines(input_vec[1]))
    /\ \E setting \in {setting_of(lines(input_vec[1])[li])} :
          IF Len(setting) < 2
          THEN /\ result' = Panic("index out of bounds")
               /\ pc' = "done"
               /\ UNCHANGED <<config, li>>
          ELSE /\ config' = insert_setting(config, setting)
               /\ li' = li + 1
               /\ UNCHANGED <<pc, result>>
    /\ UNCHANGED <<entry, given, stdin, lines_read, input_string, input, input_vec, lhs,
                   rhs, verdict>>

\* from_string: after the loop, the model is assembled or the failure given.
Decode ==
    /\ pc = "header"
    /\ li > Len(lines(input_vec[1]))
    /\ result' = assemble(input_vec, config)
    /\ pc' = "done"
    /\ UNCHANGED <<entry, given, stdin, lines_read, input_string, input, input_vec, li,
                   config, lhs, rhs, verdict>>

\* from_string as one function of its argument: the steps above in order.
RECURSIVE header_loop(_, _, _)
header_loop(ls, i, cfg) ==
    IF i > Len(ls) THEN [panic |-> FALSE, config |-> cfg]
    ELSE Bind(setting_of(ls[i]), LAMBDA setting :
            IF Len(setting) < 2 THEN [panic |-> TRUE, config |-> cfg]
            ELSE Bind(insert_setting(cfg, setting), LAMBDA more :
                    header_loop(ls, i + 1, more)))

from_string(text) ==
    Bind(split(text, <<NL, NL>>), LAMBDA vec :
        Bind(header_loop(lines(vec[1]), 1, HashMap_new), LAMBDA h :
            IF h.panic THEN Panic("index out of bounds")
            ELSE assemble(vec, h.config)))

Next ==
    \/ ReadLine
    \/ ReadError
    \/ EndOfInput
    \/ Split
    \/ HeaderLine
    \/ Decode

Spec == Init /\ [][Next]_vars

(***************************************************************************)
(* The comparison of two sessions: ==, !=, cmp, partial_cmp.               *)
(***************************************************************************)
DateTimeOf(t) == with_timezone(datetime_from_str(t.wire), "Local")

SessionPool ==
    { Session(id, DateTimeOf(start), end, tags, ann) :
        id \in {usize(1), usize(2)}, start \in {T1, T2},
        end \in {None, Some(DateTimeOf(T2))},
        tags \in {<<>>, <<TagT>>},
        ann \in {None, Some(Note)} }

InitOrd ==
    /\ lhs \in SessionPool
    /\ rhs \in SessionPool
    /\ verdict = NoVerdict
    /\ entry = "none"
    /\ given = [header |-> <<>>, sep |-> <<>>, body |-> InvalidBody(<<>>)]
    /\ stdin = <<>>
    /\ lines_read = <<>>
    /\ input_string = <<>>
    /\ input = <<>>
    /\ input_vec = <<>>
    /\ li = 1
    /\ config = HashMap_new
    /\ pc = "idle"
    /\ result = Running

Compare ==
    /\ pc = "idle"
    /\ ~verdict.done
    /\ verdict' = [done |-> TRUE,
                   eq |-> Session_eq(lhs, rhs),
                   cmp |-> Session_cmp(lhs, rhs),
                   partial_cmp |-> Session_partial_cmp(lhs, rhs)]
    /\ UNCHANGED <<callVars, lhs, rhs>>

NextOrd == Compare

SpecOrd == InitOrd /\ [][NextOrd]_vars

(***************************************************************************)
(* The claims. What the specification calls the header and the body of a   *)
(* text is defined here from the text itself: the part before the first    *)
(* "\n\n" and the part after it.                                           *)
(***************************************************************************)
Contains(s, pat) == \E p \in 1..Len(s) : starts_with_at(s, p, pat)

FirstAt(s, pat) == Min({p \in 1..Len(s) : starts_with_at(s, p, pat)})

Before(s, pat) == SubSeq(s, 1, FirstAt(s, pat) - 1)
After(s, pat) == SubSeq(s, FirstAt(s, pat) + Len(pat), Len(s))

KeySep == Str(": ")

HasSeparator(text) == Contains(text, BlankLine)
HeaderSection(text) == Before(text, BlankLine)
BodySection(text) == After(text, BlankLine)
HeaderLinesOf(text) == lines(HeaderSection(text))

WellFormedHeader(text) ==
    \A i \in 1..Len(HeaderLinesOf(text)) : Contains(HeaderLinesOf(text)[i], KeySep)

\* The text is the text of a body that is a session array (and then its
\* records), or of a body that is not one.
IsValidBody(text) == \E b \in BodyPool : b.valid /\ b.text = text
IsInvalidBody(text) == \E b \in BodyPool : ~b.valid /\ b.text = text
RecsOf(text) == (CHOOSE b \in BodyPool : b.valid /\ b.text = text).recs

\* from_string was entered (the call did not end in from_stdin's loop).
Entered == input_vec # <<>>
Done == pc = "done"

\* The kinds of outcome. The malformed-input kind is an error value that is
\* neither the IO nor the decode kind.
IsModel == result.kind = "Ok"
IsError == result.kind = "Err"
IsDecodeError == result.kind = "Err" /\ result.e.variant = "SerdeJson"
IsMalformedInputError ==
    result.kind = "Err" /\ result.e.variant \notin {"IO", "SerdeJson"}

\* A decoded DateTime is the instant the timestamp names.
IsInstant(dt, t) ==
    dt.year = t.year /\ dt.ordinal = t.ordinal /\ dt.secs = t.secs /\ ~dt.leap

\* The session decoded from a record: every field as written.
SessionIsRec(x, r) ==
    /\ x.id = r.id
    /\ IsInstant(x.start, r.start)
    /\ x.end.some = r.hasEnd
    /\ r.hasEnd => IsInstant(x.end.v, r.end)
    /\ x.tags = r.tags
    /\ x.annotation.some = r.hasAnn
    /\ r.hasAnn => x.annotation.v = r.ann

SessionsAreRecs(xs, recs) ==
    /\ Len(xs) = Len(recs)
    /\ \A i \in 1..Len(recs) : SessionIsRec(xs[i], recs[i])

\* C1: a text without "\n\n" gives an error value of the malformed-input
\* kind: from_string neither panics on it nor returns a model.
C1_NoSeparatorIsMalformedInput ==
    (Done /\ Entered /\ ~HasSeparator(input)) => IsMalformedInputError

\* C2: a text whose header has a line without ": " gives an error value of
\* the malformed-input kind, whatever its body: no panic, no model.
C2_BadHeaderLineIsMalformedInput ==
    (Done /\ Entered /\ HasSeparator(input) /\ ~WellFormedHeader(input))
        => IsMalformedInputError

\* C3: the text is split at the first "\n\n" only, so a body that is a valid
\* session array containing blank lines is decoded whole: the result is the
\* model with all sessions of that array.
C3_BodyWithBlankLinesIsDecodedWhole ==
    (/\ Done /\ Entered /\ HasSeparator(input)
     /\ WellFormedHeader(input)
     /\ IsValidBody(BodySection(input))
     /\ Contains(BodySection(input), BlankLine))
        => /\ IsModel
           /\ SessionsAreRecs(result.v.sessions, RecsOf(BodySection(input)))

\* C4: a header line is split at its first ": " only: once the loop has
\* taken a line, the config maps the text before the line's first ": " to
\* all the text after it.
C4_HeaderLineIsSplitAtFirstSeparator ==
    (Entered /\ li > 1 /\ Contains(lines(input_vec[1])[li - 1], KeySep))
        => /\ Before(lines(input_vec[1])[li - 1], KeySep) \in DOMAIN config
           /\ config[Before(lines(input_vec[1])[li - 1], KeySep)]
                = After(lines(input_vec[1])[li - 1], KeySep)

\* The last line of the header with the key k.
LastWithKey(hs, k) ==
    hs[CHOOSE i \in 1..Len(hs) :
          /\ Before(hs[i], KeySep) = k
          /\ \A j \in (i + 1)..Len(hs) : Before(hs[j], KeySep) # k]

\* C5: with every header line of the form "key: value" and a body that is a
\* valid session array, the config holds exactly the header's distinct keys,
\* each with the value of the last line that has the key.
C5_ConfigIsLastValuePerKey ==
    (/\ Done /\ Entered /\ HasSeparator(input)
     /\ WellFormedHeader(input)
     /\ IsValidBody(BodySection(input)))
        => /\ IsModel
           /\ DOMAIN result.v.config
                = {Before(HeaderLinesOf(input)[i], KeySep) :
                     i \in 1..Len(HeaderLinesOf(input))}
           /\ \A k \in DOMAIN result.v.config :
                result.v.config[k]
                  = After(LastWithKey(HeaderLinesOf(input), k), KeySep)

\* C6: when the text given to the session decoder is a session array in the
\* wire format, decoding succeeds; a record without `end` gives a session
\* whose end is None, a record with `end` one whose end is Some of the
\* instant written, and start is the instant its own string names.
C6_EndIsOptionalStartIsItsInstant ==
    (/\ Done /\ Entered /\ result.kind # "Panic"
     /\ Len(input_vec) >= 2
     /\ IsValidBody(input_vec[2]))
        => /\ IsModel
           /\ Len(result.v.sessions) = Len(RecsOf(input_vec[2]))
           /\ \A i \in 1..Len(RecsOf(input_vec[2])) :
                /\ result.v.sessions[i].end.some = RecsOf(input_vec[2])[i].hasEnd
                /\ RecsOf(input_vec[2])[i].hasEnd
                     => IsInstant(result.v.sessions[i].end.v,
                                  RecsOf(input_vec[2])[i].end)
                /\ IsInstant(result.v.sessions[i].start,
                             RecsOf(input_vec[2])[i].start)

\* A model of two sessions, the first open and the second ended at another
\* instant than the first one's start.
C6_Witness ==
    /\ Done /\ IsModel
    /\ Len(result.v.sessions) = 2
    /\ ~result.v.sessions[1].end.some
    /\ result.v.sessions[2].end.some
    /\ result.v.sessions[2].end.v.year # result.v.sessions[1].start.year

\* The id of a session as a number.
RECURSIVE NatOf(_)
NatOf(digits) ==
    IF digits = <<>> THEN 0
    ELSE NatOf(SubSeq(digits, 1, Len(digits) - 1)) * 10 + digits[Len(digits)]

IdOf(x) == NatOf(x.id)

\* C7: a == b iff all of start, end, id, tags and annotation are equal;
\* cmp is the order of the ids alone; so sessions with the same id and
\* different tags are Equal under cmp and not equal, and equal sessions
\* are Equal under cmp.
C7_EqIsAllFieldsCmpIsId ==
    verdict.done =>
        /\ verdict.eq <=> lhs = rhs
        /\ verdict.cmp = (IF IdOf(lhs) < IdOf(rhs) THEN "Less"
                          ELSE IF IdOf(lhs) > IdOf(rhs) THEN "Greater"
                          ELSE "Equal")
        /\ (lhs.id = rhs.id /\ lhs.tags # rhs.tags)
              => (verdict.cmp = "Equal" /\ ~verdict.eq)
        /\ verdict.eq => verdict.cmp = "Equal"

C7_Witness ==
    /\ verdict.done
    /\ lhs.id = rhs.id
    /\ lhs.tags # rhs.tags
    /\ lhs.start = rhs.start /\ lhs.end = rhs.end
    /\ lhs.annotation = rhs.annotation
    /\ verdict.cmp = "Equal"
    /\ ~verdict.eq

\* C8: with a well-formed header and a body that does not decode, the
\* result is the decode error (ReportError::SerdeJson), no other outcome.
C8_UndecodableBodyIsDecodeError ==
    (/\ Done /\ Entered /\ HasSeparator(input)
     /\ WellFormedHeader(input)
     /\ IsInvalidBody(BodySection(input)))
        => IsDecodeError

\* C9: a call ends with an error and no model, or with the whole model:
\* every header entry, and the sessions of the body array, in its order.
C9_ErrorOrWholeModel ==
    Done =>
        \/ IsError
        \/ /\ IsModel
           /\ \A i \in 1..Len(HeaderLinesOf(input)) :
                Before(HeaderLinesOf(input)[i], KeySep) \in DOMAIN result.v.config
           /\ IsValidBody(BodySection(input))
           /\ SessionsAreRecs(result.v.sessions, RecsOf(BodySection(input)))

\* The outcomes of two calls are the same: the same model, the same kind of
\* error, or both a panic.
SameOutcome(a, b) ==
    /\ a.kind = b.kind
    /\ a.kind = "Ok" => TimewarriorData_eq(a.v, b.v)
    /\ a.kind = "Err" => a.e.variant = b.e.variant

\* C10: when every line is read without error, from_stdin parses exactly
\* the lines joined with "\n" and trimmed, and so gives what from_string
\* gives on that text.
C10_StdinIsFromStringOfJoinedLines ==
    (entry = "from_stdin" /\ Entered)
        => /\ stdin = <<>>
           /\ input = trim(Joined(lines_read, <<NL>>))
           /\ Done => SameOutcome(result,
                                  from_string(trim(Joined(lines_read, <<NL>>))))

C10_Witness ==
    /\ entry = "from_stdin" /\ Done /\ IsModel
    /\ Len(lines_read) >= 4
    /\ Len(result.v.sessions) >= 1
    /\ DOMAIN result.v.config # {}

====
